---- MODULE Spec2Model ----
(***************************************************************************)
(* A model of libwebm-js's worker implementation (src/src/wrapper-worker.js):*)
(* the MinimalWebMMuxer session (tracks, frames, clusters, finalize) at    *)
(* the level of the bytes it pushes, and the MinimalWebMParser that reads  *)
(* such bytes back.                                                         *)
(*                                                                         *)
(* Conventions.                                                            *)
(*  - A buffer is a sequence of bytes; JS offset p is index p + 1.         *)
(*  - A string is the sequence of its char codes.                          *)
(*  - JS bit operators work on 32-bit integers; they are written here with *)
(*    \div and % (floor semantics) so that no intermediate value leaves    *)
(*    the 32-bit range.                                                    *)
(*  - A nanosecond timestamp exceeds 32 bits, so a muxer input timestamp   *)
(*    is kept as [ticks, rem]: timestampNs = ticks * 1000000 + rem with    *)
(*    0 <= rem < 1000000, and a parsed timestamp as [ticks, scale]:        *)
(*    timestampNs = ticks * scale.                                         *)
(*  - CHOOSE r \in {f(v) : v \in {e}} : TRUE is f(e) with e evaluated once  *)
(*    and named v: the parser's loops use it for the value a step hands to *)
(*    the next.                                                            *)
(***************************************************************************)
EXTENDS Integers, Sequences, FiniteSets, TLC

(***************************************************************************)
(* Bounds of the exploration.                                              *)
(***************************************************************************)
MaxTracks == 2

MaxFrames == 2

MaxFinalize == 2

\* blocks in a file given to the parser, and clusters they are spread over
MaxBlocks == 3

MaxClusters == 2

\* blocks in a file with an unusual header, size, block or end
MaxEdgeBlocks == 2

\* bytes of a buffer that is no file, before its optional tail
MaxRawLen == 4

(***************************************************************************)
(* 32-bit integer helpers.                                                 *)
(***************************************************************************)
RECURSIVE Pow2(_)
Pow2(n) == IF n = 0 THEN 1 ELSE 2 * Pow2(n - 1)

\* a | b for non-negative a, b.
RECURSIVE BitOr(_, _)
BitOr(a, b) ==
    IF a = 0 THEN b
    ELSE IF b = 0 THEN a
    ELSE (IF a % 2 = 1 \/ b % 2 = 1 THEN 1 ELSE 0) + 2 * BitOr(a \div 2, b \div 2)

\* a & b for non-negative a, b.
RECURSIVE BitAnd(_, _)
BitAnd(a, b) ==
    IF a = 0 \/ b = 0 THEN 0
    ELSE (IF a % 2 = 1 /\ b % 2 = 1 THEN 1 ELSE 0) + 2 * BitAnd(a \div 2, b \div 2)

\* (value >> n) & 0xFF for a 32-bit value and 0 <= n <= 24.
ShrByte(value, n) == (value \div Pow2(n)) % 256

\* (value << 8) | b for a 32-bit value and a byte b, wrapping to 32 bits.
Shl8Or(value, b) ==
    LET low24 == value % 16777216
    IN  IF low24 >= 8388608 THEN (low24 - 16777216) * 256 + b
        ELSE low24 * 256 + b

(***************************************************************************)
(* Strings as char codes.                                                  *)
(***************************************************************************)
RECURSIVE DecimalString(_)
DecimalString(n) ==
    IF n < 10 THEN <<48 + n>> ELSE DecimalString(n \div 10) \o <<48 + (n % 10)>>

Str_V_VP8 == <<86, 95, 86, 80, 56>>

Str_V_VP9 == <<86, 95, 86, 80, 57>>

Str_V_AV01 == <<86, 95, 65, 86, 48, 49>>

Str_A_OPUS == <<65, 95, 79, 80, 85, 83>>

Str_A_VORBIS == <<65, 95, 86, 79, 82, 66, 73, 83>>

Str_A_MP3 == <<65, 95, 77, 80, 51>>

Str_webm == <<119, 101, 98, 109>>

\* "Video Track " and "Audio Track "
Str_VideoTrack == <<86, 105, 100, 101, 111, 32, 84, 114, 97, 99, 107, 32>>

Str_AudioTrack == <<65, 117, 100, 105, 111, 32, 84, 114, 97, 99, 107, 32>>

(***************************************************************************)
(* Constants of the program.                                               *)
(***************************************************************************)
VIDEO == 1

AUDIO == 2

\* MinimalWebMMuxer.timecodeScale, set by the constructor and never changed.
timecodeScale == 1000000

isVideoCodecSupported(codecId) == codecId \in {Str_V_VP8, Str_V_VP9, Str_V_AV01}

isAudioCodecSupported(codecId) == codecId \in {Str_A_OPUS, Str_A_VORBIS}

(***************************************************************************)
(* MinimalWebMMuxer: the byte writers.  Each returns the bytes it pushes.  *)
(***************************************************************************)
writeVint(value) ==
    IF value < 128 THEN <<BitOr(value, 128)>>
    ELSE IF value < 16384 THEN <<BitOr(value \div 256, 64), value % 256>>
    ELSE IF value < 2097152 THEN
        <<BitOr(value \div 65536, 32), ShrByte(value, 8), value % 256>>
    ELSE IF value < 268435456 THEN
        <<BitOr(value \div 16777216, 16), ShrByte(value, 16), ShrByte(value, 8),
          value % 256>>
    ELSE <<8, ShrByte(value, 24), ShrByte(value, 16), ShrByte(value, 8), value % 256>>

writeElementId(id) ==
    IF id < 256 THEN <<BitOr(id, 128)>>
    ELSE IF id < 65536 THEN <<BitOr(id \div 256, 64), id % 256>>
    ELSE IF id < 16777216 THEN
        <<BitOr(id \div 65536, 32), ShrByte(id, 8), id % 256>>
    ELSE <<BitOr(id \div 16777216, 16), ShrByte(id, 16), ShrByte(id, 8), id % 256>>

\* for (i = byteLength - 1; i >= 0; i--) push((value >> (i * 8)) & 0xFF)
writeUint(value, byteLength) ==
    [k \in 1..byteLength |-> ShrByte(value, 8 * (byteLength - k))]

writeString(str) == str

writeData(data) == data

\* Bit k of a non-negative integer (0 for k < 0).
BitAt(v, k) == IF k < 0 THEN 0 ELSE (v \div Pow2(k)) % 2

RECURSIVE FloorLog2(_)
FloorLog2(v) == IF v < 2 THEN 0 ELSE 1 + FloorLog2(v \div 2)

\* The byte made of mantissa bits first .. first + 7 (bit 1 is the most
\* significant of the 52) of the IEEE 754 double of the integer v = 2^e * 1.m
MantissaBits(v, e, first, count) ==
    LET b(j) == BitAt(v, e - (first + j)) * Pow2(count - 1 - j)
    IN  IF count = 4 THEN b(0) + b(1) + b(2) + b(3)
        ELSE b(0) + b(1) + b(2) + b(3) + b(4) + b(5) + b(6) + b(7)

\* DataView.setFloat64(0, value, false) for an integer 0 <= value < 2^31:
\* sign 0, exponent 1023 + floor(log2(value)), 52 mantissa bits, big-endian.
writeFloat64(value) ==
    IF value = 0 THEN <<0, 0, 0, 0, 0, 0, 0, 0>>
    ELSE LET e == FloorLog2(value)
             biased == 1023 + e
         IN  <<biased \div 16,
               (biased % 16) * 16 + MantissaBits(value, e, 1, 4),
               MantissaBits(value, e, 5, 8),
               MantissaBits(value, e, 13, 8),
               MantissaBits(value, e, 21, 8),
               MantissaBits(value, e, 29, 8),
               MantissaBits(value, e, 37, 8),
               MantissaBits(value, e, 45, 8)>>

(***************************************************************************)
(* MinimalWebMMuxer: header, segment info and tracks.                      *)
(***************************************************************************)
writeEBMLHeader ==
    writeElementId(440786851) \o writeVint(30)               \* EBML 0x1A45DFA3
    \o writeElementId(17030) \o writeVint(1) \o writeUint(1, 1)   \* EBMLVersion 0x4286
    \o writeElementId(17143) \o writeVint(1) \o writeUint(1, 1)   \* EBMLReadVersion 0x42F7
    \o writeElementId(17138) \o writeVint(1) \o writeUint(4, 1)   \* EBMLMaxIDLength 0x42F2
    \o writeElementId(17139) \o writeVint(1) \o writeUint(8, 1)   \* EBMLMaxSizeLength 0x42F3
    \o writeElementId(17026) \o writeVint(4) \o writeString(Str_webm) \* DocType 0x4282
    \o writeElementId(17031) \o writeVint(1) \o writeUint(2, 1)   \* DocTypeVersion 0x4287
    \o writeElementId(17029) \o writeVint(1) \o writeUint(2, 1)   \* DocTypeReadVersion 0x4285

writeSegmentInfo ==
    writeElementId(357149030) \o writeVint(20)               \* SegmentInfo 0x1549A966
    \o writeElementId(2807729) \o writeVint(4) \o writeUint(timecodeScale, 4) \* 0x2AD7B1
    \o writeElementId(17545) \o writeVint(8) \o writeFloat64(0)   \* Duration 0x4489

calculateTrackSize(track) ==
    1 + 1                                  \* TrackEntry: ID + vint size
    + (1 + 1 + 1)                          \* TrackNumber
    + (1 + 1 + 1)                          \* TrackType
    + (1 + 1 + Len(track.codecId))         \* CodecID
    + (1 + 1 + Len(track.name))            \* Name
    + (IF track.type = VIDEO THEN (1 + 1) + (1 + 1 + 2) + (1 + 1 + 2)
       ELSE IF track.type = AUDIO THEN (1 + 1) + (1 + 1 + 8) + (1 + 1 + 1)
       ELSE 0)

writeTrack(track) ==
    writeElementId(174) \o writeVint(calculateTrackSize(track) - 2)   \* TrackEntry 0xAE
    \o writeElementId(215) \o writeVint(1) \o writeUint(track.id, 1)  \* TrackNumber 0xD7
    \o writeElementId(131) \o writeVint(1) \o writeUint(track.type, 1) \* TrackType 0x83
    \o writeElementId(134) \o writeVint(Len(track.codecId)) \o writeString(track.codecId)
    \o writeElementId(21358) \o writeVint(Len(track.name)) \o writeString(track.name)
    \o (IF track.type = VIDEO THEN
            writeElementId(224) \o writeVint(8)                        \* Video 0xE0
            \o writeElementId(176) \o writeVint(2) \o writeUint(track.width, 2)
            \o writeElementId(186) \o writeVint(2) \o writeUint(track.height, 2)
        ELSE IF track.type = AUDIO THEN
            writeElementId(225) \o writeVint(13)                       \* Audio 0xE1
            \o writeElementId(181) \o writeVint(8) \o writeFloat64(track.samplingFrequency)
            \o writeElementId(159) \o writeVint(1) \o writeUint(track.channels, 1)
        ELSE <<>>)

RECURSIVE SumTrackSizes(_)
SumTrackSizes(ts) ==
    IF ts = <<>> THEN 0 ELSE calculateTrackSize(Head(ts)) + SumTrackSizes(Tail(ts))

RECURSIVE ConcatTracks(_)
ConcatTracks(ts) ==
    IF ts = <<>> THEN <<>> ELSE writeTrack(Head(ts)) \o ConcatTracks(Tail(ts))

writeTracks(ts) ==
    writeElementId(374648427) \o writeVint(SumTrackSizes(ts))    \* Tracks 0x1654AE6B
    \o ConcatTracks(ts)

\* writeHeader(): EBML header, segment info, tracks.
writeHeader(ts) == writeEBMLHeader \o writeSegmentInfo \o writeTracks(ts)

(***************************************************************************)
(* The state of one MinimalWebMMuxer session, and what its caller has seen.*)
(***************************************************************************)
VARIABLES
    buffer,          \* this.buffer: the bytes pushed so far
    tracks,          \* this.tracks
    clusters,        \* this.clusters: records [timecode, startPos, size]
    currentCluster,  \* this.currentCluster: 0 for null, else its index in clusters
    nextTrackId,     \* this.nextTrackId
    writtenHeader,   \* this.writtenHeader
    written,         \* history: the frame writes that returned, in call order
    output,          \* history: the bytes returned by the last finalize()
    finalizeCalls,   \* history: the number of finalize() calls
    last             \* history: the last call, its arguments and its outcome

VARIABLES
    layout,          \* what the buffer given to the parser was assembled from
    source,          \* the buffer given to the parser: [bytes, length]
    file,            \* the outcome of WebMFile.fromBuffer(source)
    cursor,          \* this.pos of a MinimalWebMParser over source
    element,         \* the outcome of its last readElement() call
    frameIndex,      \* this.frameIndex of the WebMFile
    calls,           \* history: the readNextVideoFrame / resetFramePosition calls
    answer           \* history: the last call on the WebMFile and what it returned

muxerVars == <<buffer, tracks, clusters, currentCluster, nextTrackId, writtenHeader,
               written, output, finalizeCalls, last>>

parserVars == <<layout, source, file, cursor, element, frameIndex, calls, answer>>

vars == <<buffer, tracks, clusters, currentCluster, nextTrackId, writtenHeader,
          written, output, finalizeCalls, last, layout, source, file, cursor, element,
          frameIndex, calls, answer>>

\* No buffer was given to a parser.
NoLayout ==
    [kind |-> "none", docType |-> <<>>, muxingApp |-> <<>>, scale |-> 0,
     unknownSize |-> FALSE, cut |-> 0, insert |-> <<>>, blocks |-> <<>>, starts |-> {}]

NoSource == [bytes |-> <<>>, length |-> 0]

NoFile == [state |-> "none"]

NoElement == [called |-> FALSE]

NoAnswer == [op |-> "none"]

\* new WebMFile(): frameIndex = 0, and nothing was asked of it.
NewReader ==
    /\ frameIndex = 0
    /\ calls = <<>>
    /\ answer = NoAnswer

NoParser ==
    /\ layout = NoLayout
    /\ source = NoSource
    /\ file = NoFile
    /\ cursor = 0
    /\ element = NoElement
    /\ NewReader

\* The muxer object as one record, for the methods below.
Self ==
    [buffer |-> buffer, tracks |-> tracks, clusters |-> clusters,
     currentCluster |-> currentCluster, nextTrackId |-> nextTrackId,
     writtenHeader |-> writtenHeader]

\* buf with bytes written at JS offsets pos, pos + 1, ... (all inside buf).
SetBytes(buf, pos, bytes) ==
    [i \in 1..Len(buf) |->
        IF i > pos /\ i <= pos + Len(bytes) THEN bytes[i - pos] ELSE buf[i]]

\* Math.floor(timestampNs / this.timecodeScale), the scale being 1000000.
TicksOf(timestampNs) == timestampNs.ticks

(***************************************************************************)
(* MinimalWebMMuxer: the methods, as functions from the object to the      *)
(* object after the call.                                                  *)
(***************************************************************************)
addVideoTrack(m, width, height, codecId) ==
    LET trackId == m.nextTrackId
        track == [id |-> trackId, type |-> VIDEO, codecId |-> codecId,
                  width |-> width, height |-> height,
                  name |-> Str_VideoTrack \o DecimalString(trackId)]
    IN  [m EXCEPT !.nextTrackId = trackId + 1, !.tracks = Append(m.tracks, track)]

addAudioTrack(m, samplingFrequency, channels, codecId) ==
    LET trackId == m.nextTrackId
        track == [id |-> trackId, type |-> AUDIO, codecId |-> codecId,
                  samplingFrequency |-> samplingFrequency, channels |-> channels,
                  name |-> Str_AudioTrack \o DecimalString(trackId)]
    IN  [m EXCEPT !.nextTrackId = trackId + 1, !.tracks = Append(m.tracks, track)]

MuxWriteHeader(m) ==
    [m EXCEPT !.buffer = m.buffer \o writeHeader(m.tracks), !.writtenHeader = TRUE]

startNewCluster(m, timecode) ==
    LET cluster == [timecode |-> timecode, startPos |-> Len(m.buffer), size |-> 0]
    IN  [m EXCEPT
            !.clusters = Append(m.clusters, cluster),
            !.currentCluster = Len(m.clusters) + 1,
            !.buffer = m.buffer
                \o writeElementId(524531317) \o writeVint(0)     \* Cluster 0x1F43B675
                \o writeElementId(231) \o writeVint(2) \o writeUint(timecode, 2)]

\* A faulty variant of finalizeCurrentCluster: the size is pushed after the
\* cluster instead of being written over the reserved position.
finalizeCurrentClusterPushing(m) ==
    IF m.currentCluster # 0 THEN
        LET cur == m.clusters[m.currentCluster]
            clusterSize == Len(m.buffer) - cur.startPos - 6
        IN  [m EXCEPT !.buffer = m.buffer \o
                <<ShrByte(clusterSize, 24), ShrByte(clusterSize, 16),
                  ShrByte(clusterSize, 8), clusterSize % 256>>]
    ELSE m

finalizeCurrentCluster(m) ==
    IF m.currentCluster # 0 THEN
        LET cur == m.clusters[m.currentCluster]
            clusterEnd == Len(m.buffer)
            clusterSize == clusterEnd - cur.startPos - 6
            sizePos == cur.startPos + 4
        IN  [m EXCEPT !.buffer = SetBytes(m.buffer, sizePos,
                <<ShrByte(clusterSize, 24), ShrByte(clusterSize, 16),
                  ShrByte(clusterSize, 8), clusterSize % 256>>)]
    ELSE m

\* A faulty variant of the cluster selection: a new cluster only when the
\* timestamp is more than 32768 above the base.
EnsureClusterLate(m, clusterTimecode) ==
    IF m.currentCluster = 0
       \/ clusterTimecode > m.clusters[m.currentCluster].timecode + 32768
    THEN startNewCluster(finalizeCurrentCluster(m), clusterTimecode)
    ELSE m

\* The cluster selection shared by writeVideoFrame and writeAudioFrame.
EnsureCluster(m, clusterTimecode) ==
    IF m.currentCluster = 0
       \/ clusterTimecode >= m.clusters[m.currentCluster].timecode + 32768
    THEN startNewCluster(finalizeCurrentCluster(m), clusterTimecode)
    ELSE m

writeVideoFrame(m, trackId, frameData, timestampNs, isKeyframe) ==
    LET m1 == IF ~m.writtenHeader THEN MuxWriteHeader(m) ELSE m
        clusterTimecode == TicksOf(timestampNs)
        m2 == EnsureCluster(m1, clusterTimecode)
        blockSize == 4 + Len(frameData)
        flags == IF isKeyframe THEN 128 ELSE 0
        relativeTimecode == clusterTimecode - m2.clusters[m2.currentCluster].timecode
    IN  [m2 EXCEPT !.buffer = m2.buffer
            \o writeElementId(163) \o writeVint(blockSize)        \* SimpleBlock 0xA3
            \o writeUint(BitOr(trackId, IF isKeyframe THEN 0 ELSE 128), 1)
            \o writeUint(relativeTimecode, 2)
            \o writeUint(flags, 1)
            \o writeData(frameData)]

\* A faulty variant of writeAudioFrame: the block is put at the head of the
\* open cluster, before the blocks written earlier, instead of at the end.
writeAudioFrameAtHead(m, trackId, frameData, timestampNs) ==
    LET m1 == IF ~m.writtenHeader THEN MuxWriteHeader(m) ELSE m
        clusterTimecode == TicksOf(timestampNs)
        m2 == EnsureCluster(m1, clusterTimecode)
        cur == m2.clusters[m2.currentCluster]
        relativeTimecode == clusterTimecode - cur.timecode
        block == writeElementId(163) \o writeVint(4 + Len(frameData))
                 \o writeUint(trackId, 1) \o writeUint(relativeTimecode, 2)
                 \o writeUint(0, 1) \o writeData(frameData)
    IN  [m2 EXCEPT !.buffer = SubSeq(m2.buffer, 1, cur.startPos + 9) \o block
                        \o SubSeq(m2.buffer, cur.startPos + 10, Len(m2.buffer))]

writeAudioFrame(m, trackId, frameData, timestampNs) ==
    LET m1 == IF ~m.writtenHeader THEN MuxWriteHeader(m) ELSE m
        clusterTimecode == TicksOf(timestampNs)
        m2 == EnsureCluster(m1, clusterTimecode)
        blockSize == 4 + Len(frameData)
        relativeTimecode == clusterTimecode - m2.clusters[m2.currentCluster].timecode
    IN  [m2 EXCEPT !.buffer = m2.buffer
            \o writeElementId(163) \o writeVint(blockSize)
            \o writeUint(trackId, 1)
            \o writeUint(relativeTimecode, 2)
            \o writeUint(0, 1)
            \o writeData(frameData)]

\* ToInt32((lastCluster.timecode + 1000) * (timecodeScale / 1000000000)): the
\* product with the double 0.001 truncates to the integer quotient by 1000
\* (for 0 <= timecode < 500000).
DurationInt32(timecode) == (timecode + 1000) \div (1000000000 \div timecodeScale)

\* The JS offset finalize() patches: 4 + 30 + 4 + 4 + 4 + 8.
durationPos == 54

\* finalize(): the object after the call; the caller gets a copy of its buffer.
\* duration >> 56, 48, 40, 32 shift by 24, 16, 8, 0 (JS takes the count mod 32).
finalize(m) ==
    LET m1 == finalizeCurrentCluster(m)
    IN  IF Len(m1.clusters) > 0 THEN
            LET lastCluster == m1.clusters[Len(m1.clusters)]
                duration == DurationInt32(lastCluster.timecode)
            IN  [m1 EXCEPT !.buffer = SetBytes(m1.buffer, durationPos,
                    <<ShrByte(duration, 24), ShrByte(duration, 16),
                      ShrByte(duration, 8), duration % 256,
                      ShrByte(duration, 24), ShrByte(duration, 16),
                      ShrByte(duration, 8), duration % 256>>)]
        ELSE m1

(***************************************************************************)
(* The calls a session's owner makes, and the arguments they are drawn     *)
(* from.  No method of MinimalWebMMuxer has a throw statement on these     *)
(* arguments, so every call returns.                                       *)
(***************************************************************************)
Ns(ticks, rem) == [ticks |-> ticks, rem |-> rem]

TimestampInputs == {Ns(0, 0), Ns(33, 333333), Ns(100, 0), Ns(32768, 0), Ns(70000, 0)}

Payload == <<48, 0, 0>>

VideoTrackInputs ==
    {[width |-> 640, height |-> 480, codecId |-> Str_V_VP8],
     [width |-> 0, height |-> 480, codecId |-> Str_V_VP8]}

AudioTrackInputs ==
    {[samplingFrequency |-> 48000, channels |-> 2, codecId |-> Str_A_OPUS],
     [samplingFrequency |-> 48000, channels |-> 2, codecId |-> Str_A_MP3]}

VideoFrameInputs ==
    [trackId : {1}, frameData : {Payload}, timestampNs : TimestampInputs,
     isKeyframe : BOOLEAN]
    \cup {[trackId |-> 999, frameData |-> Payload, timestampNs |-> Ns(0, 0),
           isKeyframe |-> TRUE],
          [trackId |-> 1, frameData |-> <<>>, timestampNs |-> Ns(0, 0),
           isKeyframe |-> TRUE]}

AudioFrameInputs ==
    [trackId : {2}, frameData : {Payload}, timestampNs : TimestampInputs]
    \cup {[trackId |-> 2, frameData |-> <<>>, timestampNs |-> Ns(0, 0)]}

\* What the caller could observe before a call: the sizes, the call before
\* it and what finalize() last returned, and the open cluster's base
\* (-1 when this.currentCluster is null).
Before ==
    [bufferLen |-> Len(buffer), tracksLen |-> Len(tracks), nextTrackId |-> nextTrackId,
     framesWritten |-> Len(written), finalizeCalls |-> finalizeCalls,
     op |-> last.op, output |-> output, clustersLen |-> Len(clusters),
     base |-> IF currentCluster = 0 THEN -1 ELSE clusters[currentCluster].timecode]

Assign(m) ==
    /\ buffer' = m.buffer
    /\ tracks' = m.tracks
    /\ clusters' = m.clusters
    /\ currentCluster' = m.currentCluster
    /\ nextTrackId' = m.nextTrackId
    /\ writtenHeader' = m.writtenHeader

\* new MinimalWebMMuxer()
NewMuxer ==
    /\ buffer = <<>>
    /\ tracks = <<>>
    /\ clusters = <<>>
    /\ currentCluster = 0
    /\ nextTrackId = 1
    /\ writtenHeader = FALSE
    /\ written = <<>>
    /\ output = <<>>
    /\ finalizeCalls = 0
    /\ last = [op |-> "new", threw |-> FALSE, before |-> [bufferLen |-> 0,
               tracksLen |-> 0, nextTrackId |-> 1, framesWritten |-> 0,
               finalizeCalls |-> 0, op |-> "new", output |-> <<>>,
               clustersLen |-> 0, base |-> -1]]

Init == NewMuxer /\ NoParser

AddVideoTrack(inputs) ==
    /\ nextTrackId <= MaxTracks
    /\ \E in \in inputs :
        /\ Assign(addVideoTrack(Self, in.width, in.height, in.codecId))
        /\ last' = [op |-> "addVideoTrack", threw |-> FALSE, before |-> Before,
                    arg |-> in, value |-> nextTrackId]
    /\ UNCHANGED <<written, output, finalizeCalls>>
    /\ UNCHANGED parserVars

AddAudioTrack(inputs) ==
    /\ nextTrackId <= MaxTracks
    /\ \E in \in inputs :
        /\ Assign(addAudioTrack(Self, in.samplingFrequency, in.channels, in.codecId))
        /\ last' = [op |-> "addAudioTrack", threw |-> FALSE, before |-> Before,
                    arg |-> in, value |-> nextTrackId]
    /\ UNCHANGED <<written, output, finalizeCalls>>
    /\ UNCHANGED parserVars

\* The entry of the written history for a frame write that returned: its
\* arguments, the number of tracks registered when it was made, the cluster
\* it went to and the JS offset of its SimpleBlock.
Entry(kind, in, key, m) ==
    [kind |-> kind, trackId |-> in.trackId, frameData |-> in.frameData,
     timestampNs |-> in.timestampNs, isKeyframe |-> key,
     tracksLen |-> Len(tracks), cluster |-> m.currentCluster,
     blockPos |-> Len(m.buffer) - (6 + Len(in.frameData))]

WriteVideoFrame(inputs) ==
    /\ Len(written) < MaxFrames
    /\ \E in \in inputs :
        LET m == writeVideoFrame(Self, in.trackId, in.frameData, in.timestampNs,
                                 in.isKeyframe)
        IN  /\ Assign(m)
            /\ written' = Append(written, Entry("video", in, in.isKeyframe, m))
            /\ last' = [op |-> "writeVideoFrame", threw |-> FALSE, before |-> Before,
                        arg |-> in]
    /\ UNCHANGED <<output, finalizeCalls>>
    /\ UNCHANGED parserVars

WriteAudioFrame(inputs) ==
    /\ Len(written) < MaxFrames
    /\ \E in \in inputs :
        LET m == writeAudioFrame(Self, in.trackId, in.frameData, in.timestampNs)
        IN  /\ Assign(m)
            /\ written' = Append(written, Entry("audio", in, FALSE, m))
            /\ last' = [op |-> "writeAudioFrame", threw |-> FALSE, before |-> Before,
                        arg |-> in]
    /\ UNCHANGED <<output, finalizeCalls>>
    /\ UNCHANGED parserVars

Finalize ==
    /\ finalizeCalls < MaxFinalize
    /\ LET m == finalize(Self)
       IN  /\ Assign(m)
           /\ output' = m.buffer                \* new Uint8Array(this.buffer)
    /\ finalizeCalls' = finalizeCalls + 1
    /\ last' = [op |-> "finalize", threw |-> FALSE, before |-> Before]
    /\ UNCHANGED written
    /\ UNCHANGED parserVars

Next ==
    \/ AddVideoTrack(VideoTrackInputs)
    \/ AddAudioTrack(AudioTrackInputs)
    \/ WriteVideoFrame(VideoFrameInputs)
    \/ WriteAudioFrame(AudioFrameInputs)
    \/ Finalize

Spec == Init /\ [][Next]_vars

(***************************************************************************)
(* MinimalWebMParser.  A parser is a buffer and a cursor (JS offset pos);  *)
(* a reader returns [ok |-> FALSE] for null.                               *)
(***************************************************************************)
Null == [ok |-> FALSE]

\* buffer[p] for a JS offset p inside the buffer.
ByteAt(buf, p) == buf[p + 1]

\* TypedArray.prototype.slice(start, end): negative indices count from the end.
Slice(buf, start, end) ==
    LET len == Len(buf)
        rel(x) == IF x < 0 THEN (IF len + x < 0 THEN 0 ELSE len + x)
                  ELSE (IF x > len THEN len ELSE x)
    IN  SubSeq(buf, rel(start) + 1, rel(end))

\* The length a first byte announces: the position of its first set bit
\* (0 when the byte is 0).
VintLength(firstByte) ==
    IF firstByte >= 128 THEN 1 ELSE IF firstByte >= 64 THEN 2
    ELSE IF firstByte >= 32 THEN 3 ELSE IF firstByte >= 16 THEN 4
    ELSE IF firstByte >= 8 THEN 5 ELSE IF firstByte >= 4 THEN 6
    ELSE IF firstByte >= 2 THEN 7 ELSE IF firstByte >= 1 THEN 8 ELSE 0

\* value = (value << 8) | buf[from + i] for i = 0 .. count - 1, in 32 bits.
RECURSIVE ShiftIn(_, _, _, _)
ShiftIn(value, buf, from, count) ==
    IF count = 0 THEN value
    ELSE ShiftIn(Shl8Or(value, ByteAt(buf, from)), buf, from + 1, count - 1)

\* readVint() / readVintFromBuffer(buffer, offset): the marker bit is removed.
\* A byte read at a negative offset is undefined, and undefined & mask is 0.
readVintFromBuffer(buf, offset) ==
    IF offset >= Len(buf) \/ offset < 0 THEN Null
    ELSE LET firstByte == ByteAt(buf, offset)
             length == VintLength(firstByte)
         IN  IF length = 0 \/ offset + length > Len(buf) THEN Null
             ELSE [ok |-> TRUE, length |-> length,
                   value |-> ShiftIn(firstByte % Pow2(8 - length), buf, offset + 1,
                                     length - 1)]

readVint(buf, pos) == readVintFromBuffer(buf, pos)

\* readElementId(): the marker bit is kept.
readElementId(buf, pos) ==
    IF pos >= Len(buf) \/ pos < 0 THEN Null
    ELSE LET length == VintLength(ByteAt(buf, pos))
         IN  IF length = 0 \/ pos + length > Len(buf) THEN Null
             ELSE [ok |-> TRUE, length |-> length,
                   value |-> ShiftIn(0, buf, pos, length)]

\* readElement(): [id, size, data] and the cursor after the call.
readElement(buf, pos) ==
    LET id == readElementId(buf, pos)
    IN  IF ~id.ok THEN Null
        ELSE LET size == readVint(buf, pos + id.length)
             IN  IF ~size.ok THEN Null
                 ELSE LET dataStart == pos + id.length + size.length
                          dataEnd == IF size.value > Len(buf) - dataStart THEN Len(buf)
                                     ELSE dataStart + size.value
                      IN  [ok |-> TRUE, id |-> id.value, size |-> size.value,
                           data |-> Slice(buf, dataStart, dataEnd), pos |-> dataEnd]

\* The loop every container runs over its data with a fresh parser:
\*   while (parser.pos < data.length) { e = parser.readElement(); if (!e) break; ... }
\* It yields the elements read, in order.  The loop's control depends on the
\* cursor alone, so a cursor value seen before means it never ends (hang).
\* stopIds: the ids after which the loop breaks (the root loop's Segment).
RECURSIVE ReadLoop(_, _, _, _, _)
ReadLoop(buf, pos, seen, acc, stopIds) ==
    IF pos >= Len(buf) THEN [hang |-> FALSE, elements |-> acc]
    ELSE IF pos \in seen THEN [hang |-> TRUE, elements |-> acc]
    ELSE CHOOSE r \in
            {IF ~e.ok THEN [hang |-> FALSE, elements |-> acc]
             ELSE IF e.id \in stopIds THEN [hang |-> FALSE, elements |-> Append(acc, e)]
             ELSE ReadLoop(buf, e.pos, seen \cup {pos}, Append(acc, e), stopIds) :
                e \in {readElement(buf, pos)}} : TRUE

ReadElements(data) == ReadLoop(data, 0, {}, <<>>, {})

readUint(data) == ShiftIn(0, data, 0, Len(data))

\* readInt16(data, offset): big-endian, signed; 0 when the bytes are missing.
readInt16(data, offset) ==
    IF Len(data) < offset + 2 THEN 0
    ELSE LET u == ByteAt(data, offset) * 256 + ByteAt(data, offset + 1)
         IN  IF u >= 32768 THEN u - 65536 ELSE u

\* readFloat(data): the IEEE 754 value of 4 or 8 big-endian bytes, kept as
\* its bytes; 0 (no bytes) for any other length.
readFloat(data) == IF Len(data) = 4 \/ Len(data) = 8 THEN data ELSE <<>>

\* The UTF-8 decoder of TextDecoder, from byte i on: need is the number of
\* continuation bytes the open sequence still wants (0: none is open), cp
\* the bits read so far, lower..upper the range of the next byte.  A byte
\* that cannot start or continue a sequence gives U+FFFD, and the byte
\* that broke a sequence is read again as a first byte; a sequence cut by
\* the end of the data gives one U+FFFD.
RECURSIVE Utf8Decode(_, _, _, _, _, _)
Utf8Decode(data, i, need, cp, lower, upper) ==
    IF i > Len(data) THEN (IF need = 0 THEN <<>> ELSE <<65533>>)
    ELSE LET b == data[i]
         IN  IF need = 0
             THEN IF b < 128 THEN <<b>> \o Utf8Decode(data, i + 1, 0, 0, 128, 191)
                  ELSE IF b >= 194 /\ b <= 223
                  THEN Utf8Decode(data, i + 1, 1, b % 32, 128, 191)
                  ELSE IF b >= 224 /\ b <= 239
                  THEN Utf8Decode(data, i + 1, 2, b % 16,
                                  IF b = 224 THEN 160 ELSE 128,
                                  IF b = 237 THEN 159 ELSE 191)
                  ELSE IF b >= 240 /\ b <= 244
                  THEN Utf8Decode(data, i + 1, 3, b % 8,
                                  IF b = 240 THEN 144 ELSE 128,
                                  IF b = 244 THEN 143 ELSE 191)
                  ELSE <<65533>> \o Utf8Decode(data, i + 1, 0, 0, 128, 191)
             ELSE IF b < lower \/ b > upper
             THEN <<65533>> \o Utf8Decode(data, i, 0, 0, 128, 191)
             ELSE IF need = 1
             THEN <<cp * 64 + (b % 64)>> \o Utf8Decode(data, i + 1, 0, 0, 128, 191)
             ELSE Utf8Decode(data, i + 1, need - 1, cp * 64 + (b % 64), 128, 191)

\* readString(data): new TextDecoder('utf-8').decode(data), as code points;
\* a byte order mark at the head of the data is dropped.
readString(data) ==
    LET s == CHOOSE r \in {Utf8Decode(data, 1, 0, 0, 128, 191)} : TRUE
    IN  IF Len(s) > 0 /\ s[1] = 65279 THEN Tail(s) ELSE s

\* (clusterTimecode + relativeTimecode) * this.metadata.timecodeScale
TimesScale(ticks, scale) == [ticks |-> ticks, scale |-> scale]

EmptyMetadata ==
    [duration |-> <<>>, tracks |-> <<>>, timecodeScale |-> 1000000, frames |-> <<>>,
     hang |-> FALSE]

\* parseSimpleBlock() putting the frame at the head of frames (unshift
\* where the code has push).
parseSimpleBlockUnshift(md, blockData, clusterTimecode) ==
    IF Len(blockData) < 4 THEN md
    ELSE LET relativeTimecode == readInt16(blockData, 1)
             flags == ByteAt(blockData, 3)
             frame == [trackNumber |-> ByteAt(blockData, 0) % 128,
                       timestampNs |-> TimesScale(clusterTimecode + relativeTimecode,
                                                  md.timecodeScale),
                       data |-> Slice(blockData, 4, Len(blockData)),
                       isKeyframe |-> flags >= 128,
                       isInvisible |-> (flags \div 8) % 2 = 1,
                       frameType |-> "video"]
         IN  [md EXCEPT !.frames = <<frame>> \o md.frames]

\* parseSimpleBlock(blockData, clusterTimecode): the metadata after the call.
parseSimpleBlock(md, blockData, clusterTimecode) ==
    IF Len(blockData) < 4 THEN md
    ELSE LET trackNumber == ByteAt(blockData, 0) % 128
             relativeTimecode == readInt16(blockData, 1)
             flags == ByteAt(blockData, 3)
             frame == [trackNumber |-> trackNumber,
                       timestampNs |-> TimesScale(clusterTimecode + relativeTimecode,
                                                  md.timecodeScale),
                       data |-> Slice(blockData, 4, Len(blockData)),
                       isKeyframe |-> flags >= 128,
                       isInvisible |-> (flags \div 8) % 2 = 1,
                       frameType |-> "video"]
         IN  [md EXCEPT !.frames = Append(md.frames, frame)]

\* parseBlock(blockData, clusterTimecode)
parseBlock(md, blockData, clusterTimecode) ==
    IF Len(blockData) < 3 THEN md
    ELSE LET vint == readVintFromBuffer(blockData, 0)
         IN  IF ~vint.ok THEN md
             ELSE LET offset == vint.length
                      relativeTimecode == readInt16(blockData, offset)
                      frame == [trackNumber |-> vint.value,
                                timestampNs |-> TimesScale(clusterTimecode + relativeTimecode,
                                                           md.timecodeScale),
                                data |-> Slice(blockData, offset + 2, Len(blockData)),
                                isKeyframe |-> TRUE,
                                isInvisible |-> FALSE,
                                frameType |-> "video"]
                  IN  [md EXCEPT !.frames = Append(md.frames, frame)]

Str_unknown == <<117, 110, 107, 110, 111, 119, 110>>

\* parseTrackEntry(trackData), the later of the class's two definitions (the
\* one in force): the track read, or hang.
RECURSIVE TrackEntryFold(_, _, _)
TrackEntryFold(track, es, i) ==
    IF i > Len(es) THEN track
    ELSE LET e == es[i]
             t == IF e.id = 215 THEN [track EXCEPT !.trackNumber = readUint(e.data)]
                  ELSE IF e.id = 131 THEN [track EXCEPT !.trackType = readUint(e.data)]
                  ELSE IF e.id = 134 THEN [track EXCEPT !.codecId = readString(e.data)]
                  ELSE IF e.id = 21358 THEN [track EXCEPT !.name = readString(e.data)]
                  ELSE track
         IN  CHOOSE r \in {TrackEntryFold(next, es, i + 1) : next \in {t}} : TRUE

parseTrackEntry(trackData) ==
    CHOOSE done \in
        {[hang |-> r.hang,
          track |-> TrackEntryFold([trackNumber |-> 0, trackType |-> 0,
                                    codecId |-> Str_unknown, name |-> <<>>],
                                   r.elements, 1)] :
         r \in {ReadElements(trackData)}} : TRUE

RECURSIVE TracksFold(_, _, _)
TracksFold(md, es, i) ==
    IF i > Len(es) \/ md.hang THEN md
    ELSE LET e == es[i]
             t == parseTrackEntry(e.data)
             md1 == IF e.id # 174 THEN md
                    ELSE IF t.hang THEN [md EXCEPT !.hang = TRUE]
                    ELSE IF t.track.trackNumber > 0
                         THEN [md EXCEPT !.tracks = Append(md.tracks, t.track)]
                    ELSE md
         IN  CHOOSE r \in {TracksFold(next, es, i + 1) : next \in {md1}} : TRUE

parseTracks(md, tracksData) ==
    CHOOSE done \in UNION
        {{[md1 EXCEPT !.hang = md1.hang \/ r.hang] :
            md1 \in {TracksFold(md, r.elements, 1)}} :
         r \in {ReadElements(tracksData)}} : TRUE

RECURSIVE SegmentInfoFold(_, _, _)
SegmentInfoFold(md, es, i) ==
    IF i > Len(es) THEN md
    ELSE LET e == es[i]
             md1 == IF e.id = 2807729 THEN [md EXCEPT !.timecodeScale = readUint(e.data)]
                    ELSE IF e.id = 17545 THEN [md EXCEPT !.duration = readFloat(e.data)]
                    ELSE md
         IN  CHOOSE r \in {SegmentInfoFold(next, es, i + 1) : next \in {md1}} : TRUE

parseSegmentInfo(md, infoData) ==
    CHOOSE done \in UNION
        {{[md1 EXCEPT !.hang = md1.hang \/ r.hang] :
            md1 \in {SegmentInfoFold(md, r.elements, 1)}} :
         r \in {ReadElements(infoData)}} : TRUE

RECURSIVE BlockGroupFold(_, _, _, _)
BlockGroupFold(md, es, i, clusterTimecode) ==
    IF i > Len(es) THEN md
    ELSE CHOOSE r \in
            {BlockGroupFold(next, es, i + 1, clusterTimecode) :
                next \in {IF es[i].id = 161 THEN parseBlock(md, es[i].data, clusterTimecode)
                          ELSE md}} : TRUE

parseBlockGroup(md, blockGroupData, clusterTimecode) ==
    CHOOSE done \in UNION
        {{[md1 EXCEPT !.hang = md1.hang \/ r.hang] :
            md1 \in {BlockGroupFold(md, r.elements, 1, clusterTimecode)}} :
         r \in {ReadElements(blockGroupData)}} : TRUE

RECURSIVE ClusterFold(_, _, _, _)
ClusterFold(md, es, i, clusterTimecode) ==
    IF i > Len(es) \/ md.hang THEN md
    ELSE LET e == es[i]
             timecode == IF e.id = 231 THEN readUint(e.data) ELSE clusterTimecode
             md1 == IF e.id = 163 THEN parseSimpleBlock(md, e.data, clusterTimecode)
                    ELSE IF e.id = 160 THEN parseBlockGroup(md, e.data, clusterTimecode)
                    ELSE md
         IN  CHOOSE r \in {ClusterFold(next, es, i + 1, tc) :
                              next \in {md1}, tc \in {timecode}} : TRUE

parseCluster(md, clusterData) ==
    CHOOSE done \in UNION
        {{[md1 EXCEPT !.hang = md1.hang \/ r.hang] :
            md1 \in {ClusterFold(md, r.elements, 1, 0)}} :
         r \in {ReadElements(clusterData)}} : TRUE

RECURSIVE SegmentFold(_, _, _)
\* The switch of parseSegment() with a default case that leaves the loop.
SegmentFoldKnownOnly(md, es, i) ==
    IF i > Len(es) \/ md.hang THEN md
    ELSE IF es[i].id \notin {357149030, 88713574, 374648427, 106212971,
                             524531317, 256095861} THEN md
    ELSE CHOOSE r \in
            {SegmentFold(next, es, i + 1) :
                next \in {IF es[i].id \in {357149030, 88713574}
                          THEN parseSegmentInfo(md, es[i].data)
                          ELSE IF es[i].id \in {374648427, 106212971}
                          THEN parseTracks(md, es[i].data)
                          ELSE parseCluster(md, es[i].data)}} : TRUE

SegmentFold(md, es, i) ==
    IF i > Len(es) \/ md.hang THEN md
    ELSE LET e == es[i]
             md1 == IF e.id \in {357149030, 88713574} THEN parseSegmentInfo(md, e.data)
                    ELSE IF e.id \in {374648427, 106212971} THEN parseTracks(md, e.data)
                    ELSE IF e.id \in {524531317, 256095861} THEN parseCluster(md, e.data)
                    ELSE md
         IN  CHOOSE r \in {SegmentFold(next, es, i + 1) : next \in {md1}} : TRUE

parseSegment(md, segmentData) ==
    CHOOSE done \in UNION
        {{[md1 EXCEPT !.hang = md1.hang \/ r.hang] :
            md1 \in {SegmentFold(md, r.elements, 1)}} :
         r \in {ReadElements(segmentData)}} : TRUE

\* validateEBMLHeader() without its check of the magic bytes.
validateEBMLHeaderAnyMagic(buf) ==
    /\ Len(buf) >= 4
    /\ \E i \in 0..99 : i < Len(buf) - 4 /\ SubSeq(buf, i + 1, i + 4) = Str_webm

\* validateEBMLHeader(): the magic bytes, then "webm" starting at some offset
\* i < min(length - 4, 100).
validateEBMLHeader(buf) ==
    /\ Len(buf) >= 4
    /\ SubSeq(buf, 1, 4) = <<26, 69, 223, 163>>
    /\ \E i \in 0..99 : i < Len(buf) - 4 /\ SubSeq(buf, i + 1, i + 4) = Str_webm

SegmentIds == {408125543, 139690087}

\* parse(): [threw, hang, metadata].  The root loop breaks after the first
\* Segment element.
parse(buf) ==
    IF ~validateEBMLHeader(buf) THEN [threw |-> TRUE, hang |-> FALSE, metadata |-> EmptyMetadata]
    ELSE CHOOSE done \in UNION
            {{[threw |-> FALSE, hang |-> r.hang \/ md.hang, metadata |-> md] :
                md \in {IF Len(r.elements) > 0
                           /\ r.elements[Len(r.elements)].id \in SegmentIds
                        THEN parseSegment(EmptyMetadata, r.elements[Len(r.elements)].data)
                        ELSE EmptyMetadata}} :
             r \in {ReadLoop(buf, 0, {}, <<>>, SegmentIds)}} : TRUE

(***************************************************************************)
(* Reading the session's history.                                          *)
(***************************************************************************)
AddOps == {"addVideoTrack", "addAudioTrack"}

WriteOps == {"writeVideoFrame", "writeAudioFrame"}

\* The last call was finalize(): output is what it returned.
JustFinalized == last.op = "finalize"

NsLess(a, b) == a.ticks < b.ticks \/ (a.ticks = b.ticks /\ a.rem < b.rem)

\* The timestamps written to each track never decrease.
PerTrackMonotone ==
    \A i, j \in 1..Len(written) :
        (i < j /\ written[i].trackId = written[j].trackId)
            => ~NsLess(written[j].timestampNs, written[i].timestampNs)

\* Every call so far was within the documented contract: supported codecs,
\* non-zero dimensions, handles returned by an add call, non-empty payloads,
\* tracks declared before the first frame, exact multiples of TimecodeScale.
TrackValid(t) ==
    IF t.type = VIDEO THEN t.width > 0 /\ t.height > 0 /\ isVideoCodecSupported(t.codecId)
    ELSE t.samplingFrequency > 0 /\ t.channels > 0 /\ isAudioCodecSupported(t.codecId)

ContractSession ==
    /\ \A i \in 1..Len(tracks) : TrackValid(tracks[i])
    /\ \A i \in 1..Len(written) :
        /\ written[i].trackId \in 1..Len(tracks)
        /\ written[i].tracksLen = Len(tracks)
        /\ written[i].frameData # <<>>
        /\ written[i].timestampNs.rem = 0
    /\ PerTrackMonotone

\* The tracks the header was written with.
HeaderTracks == SubSeq(tracks, 1, written[1].tracksLen)

\* A parsed timestamp [ticks, scale] equals a written one [ticks, rem].
SameNs(parsed, w) ==
    /\ w.rem = 0
    /\ \/ parsed.scale = timecodeScale /\ parsed.ticks = w.ticks
       \/ (parsed.scale = 0 \/ parsed.ticks = 0) /\ w.ticks = 0

(***************************************************************************)
(* C1: mux then parse round trip.  After a first finalize() of a session   *)
(* within the contract that wrote at least one frame, parsing the returned *)
(* bytes succeeds and yields as many tracks as were declared, with the same*)
(* codec ids, and one frame per written frame, in write order, with the    *)
(* written track number, timestamp and payload.                            *)
(***************************************************************************)
C1_RoundTrip ==
    (JustFinalized /\ last.before.finalizeCalls = 0 /\ ContractSession /\ Len(written) > 0)
    => LET r == parse(output)
           md == r.metadata
       IN  /\ ~r.threw /\ ~r.hang
           /\ Len(md.tracks) = Len(tracks)
           /\ \A i \in 1..Len(md.tracks) : md.tracks[i].codecId = tracks[i].codecId
           /\ Len(md.frames) = Len(written)
           /\ \A i \in 1..Len(md.frames) :
                /\ md.frames[i].trackNumber = written[i].trackId
                /\ SameNs(md.frames[i].timestampNs, written[i].timestampNs)
                /\ md.frames[i].data = written[i].frameData

(***************************************************************************)
(* C2: the bytes finalize() returns are the EBML Header followed by one    *)
(* Segment element (ID 0x18538067) that extends to the end and whose       *)
(* children are SegmentInfo, then Tracks, then only Clusters.              *)
(***************************************************************************)
C2_SegmentWrapsAll ==
    (JustFinalized /\ Len(written) > 0)
    => LET h == readElement(output, 0)
           seg == readElement(output, Len(writeEBMLHeader))
       IN  /\ h.ok /\ h.id = 440786851 /\ h.pos = Len(writeEBMLHeader)
           /\ seg.ok /\ seg.id = 408125543 /\ seg.pos = Len(output)
           /\ LET kids == ReadElements(seg.data).elements
              IN  /\ Len(kids) >= 2
                  /\ kids[1].id = 357149030
                  /\ kids[2].id = 374648427
                  /\ \A k \in 3..Len(kids) : kids[k].id = 524531317

\* The size field that follows the ID at idPos decodes as a VINT and the
\* payload it declares ends at endPos, where the emitted element ends.
SizeFieldOk(buf, idPos, idLen, endPos) ==
    LET v == readVint(buf, idPos + idLen)
    IN  v.ok /\ idPos + idLen + v.length + v.value = endPos

\* Where the muxer put each element of the header it wrote.
SegmentInfoPos == Len(writeEBMLHeader)

TracksPos == Len(writeEBMLHeader) + Len(writeSegmentInfo)

TracksEnd == TracksPos + Len(writeTracks(HeaderTracks))

TrackEntryPos(k) ==
    TracksEnd - Len(ConcatTracks(SubSeq(HeaderTracks, k, Len(HeaderTracks))))

ClusterEnd(c) == IF c < Len(clusters) THEN clusters[c + 1].startPos ELSE Len(output)

(***************************************************************************)
(* C3: in the bytes finalize() returns, the size field of every element    *)
(* the muxer emitted (EBML Header, SegmentInfo, Tracks, each TrackEntry,   *)
(* each Cluster, each SimpleBlock) decodes as a VINT to exactly the byte   *)
(* length of that element's payload.                                       *)
(***************************************************************************)
C3_SizesMatchPayload ==
    (JustFinalized /\ Len(written) > 0)
    => /\ SizeFieldOk(output, 0, 4, SegmentInfoPos)
       /\ SizeFieldOk(output, SegmentInfoPos, 4, TracksPos)
       /\ SizeFieldOk(output, TracksPos, 4, TracksEnd)
       /\ \A k \in 1..Len(HeaderTracks) :
            SizeFieldOk(output, TrackEntryPos(k), 1,
                        TrackEntryPos(k) + Len(writeTrack(HeaderTracks[k])))
       /\ \A c \in 1..Len(clusters) :
            SizeFieldOk(output, clusters[c].startPos, 4, ClusterEnd(c))
       /\ \A i \in 1..Len(written) :
            SizeFieldOk(output, written[i].blockPos, 1,
                        written[i].blockPos + 6 + Len(written[i].frameData))

(***************************************************************************)
(* C4: finalize() of a session that declared at least one track and wrote  *)
(* no frame returns without an error a non-empty byte vector.              *)
(***************************************************************************)
C4_FinalizeWithoutFramesNonEmpty ==
    (JustFinalized /\ Len(tracks) >= 1 /\ Len(written) = 0)
    => ~last.threw /\ Len(output) > 0

(***************************************************************************)
(* C5: the session states.  A track declaration made once a frame has been *)
(* written fails and registers nothing; after finalize() no declaration or *)
(* frame write is accepted, and none changes the session's bytes.          *)
(***************************************************************************)
C5_SessionStates ==
    /\ (last.op \in AddOps /\ last.before.framesWritten > 0)
        => last.threw /\ Len(tracks) = last.before.tracksLen
    /\ (last.op \in AddOps \cup WriteOps /\ last.before.finalizeCalls > 0)
        => /\ last.threw
           /\ Len(tracks) = last.before.tracksLen
           /\ Len(buffer) = last.before.bufferLen

(***************************************************************************)
(* C6: a frame write whose track handle was not returned by an add call on *)
(* this session, or whose payload is empty, fails and appends nothing.     *)
(***************************************************************************)
C6_WriteRejectsBadHandleOrEmpty ==
    (last.op \in WriteOps
     /\ (last.arg.trackId \notin 1..last.before.tracksLen \/ last.arg.frameData = <<>>))
    => last.threw /\ Len(buffer) = last.before.bufferLen

\* The frames written to a track before the last call, oldest first.
EarlierOnTrack(trackId) ==
    {i \in 1..(Len(written) - 1) : written[i].trackId = trackId}

\* The last write went to a track whose latest earlier frame is later.
LastWriteOutOfOrder ==
    /\ EarlierOnTrack(last.arg.trackId) # {}
    /\ LET j == CHOOSE i \in EarlierOnTrack(last.arg.trackId) :
                    \A k \in EarlierOnTrack(last.arg.trackId) : k <= i
       IN  NsLess(last.arg.timestampNs, written[j].timestampNs)

(***************************************************************************)
(* C7: a video frame write fails exactly when its timestamp is strictly    *)
(* less than the last timestamp written to the same track; an equal or     *)
(* greater timestamp is accepted.                                          *)
(***************************************************************************)
C7_OutOfOrderRejected ==
    (last.op = "writeVideoFrame" /\ last.before.finalizeCalls = 0
     /\ last.arg.trackId \in 1..last.before.tracksLen /\ last.arg.frameData # <<>>)
    => (last.threw <=> LastWriteOutOfOrder)

(***************************************************************************)
(* C8: a video track declaration with a zero width or height or a codec    *)
(* outside the video registry fails, an audio track declaration with a     *)
(* codec outside the audio registry fails, and a failed declaration        *)
(* registers no track and consumes no handle.                              *)
(***************************************************************************)
C8_AddTrackValidates ==
    /\ (last.op = "addVideoTrack"
        /\ (last.arg.width = 0 \/ last.arg.height = 0
            \/ ~isVideoCodecSupported(last.arg.codecId)))
        => /\ last.threw
           /\ Len(tracks) = last.before.tracksLen
           /\ nextTrackId = last.before.nextTrackId
    /\ (last.op = "addAudioTrack" /\ ~isAudioCodecSupported(last.arg.codecId))
        => /\ last.threw
           /\ Len(tracks) = last.before.tracksLen
           /\ nextTrackId = last.before.nextTrackId

(***************************************************************************)
(* C9: when the timestamps written to each track never decrease, every     *)
(* SimpleBlock's timestamp relative to the Timecode of the Cluster it was  *)
(* put in lies in -32768 .. 32767, and the 16-bit field holds it.          *)
(***************************************************************************)
C9_RelativeTimecodeInRange ==
    (/\ PerTrackMonotone
     /\ \A i \in 1..Len(written) :
            written[i].trackId \in 1..written[i].tracksLen /\ written[i].frameData # <<>>)
    => \A i \in 1..Len(written) :
        LET delta == TicksOf(written[i].timestampNs)
                        - clusters[written[i].cluster].timecode
        IN  /\ delta \in -32768..32767
            /\ readInt16(buffer, written[i].blockPos + 3) = delta

\* DataView.getFloat64 of 8 big-endian bytes, read far enough to compare it
\* with a whole number: bit k of the 52-bit fraction (1 is the highest), the
\* biased exponent, and the integer part for exponents 0 .. 30.
FractionBit(bytes, k) == (bytes[((11 + k) \div 8) + 1] \div Pow2(7 - ((11 + k) % 8))) % 2

BiasedExponent(bytes) == (bytes[1] % 128) * 16 + bytes[2] \div 16

RECURSIVE IntegerPart(_, _, _)
IntegerPart(bytes, e, k) ==
    IF k > e THEN 0
    ELSE FractionBit(bytes, k) * Pow2(e - k) + IntegerPart(bytes, e, k + 1)

\* |getFloat64(bytes) - n| <= 0.5 for a whole number n >= 0.
Float64WithinHalf(bytes, n) ==
    LET biased == BiasedExponent(bytes)
        e == biased - 1023
        negative == bytes[1] >= 128
        fractionIsZero == \A k \in 1..52 : FractionBit(bytes, k) = 0
    IN  IF biased = 2047 THEN FALSE                       \* Infinity, NaN
        ELSE IF biased = 0 /\ fractionIsZero THEN n = 0   \* +0, -0
        ELSE IF negative THEN n = 0 /\ (e < -1 \/ (e = -1 /\ fractionIsZero))
        ELSE IF e < -1 THEN n = 0                         \* 0 < value < 0.5
        ELSE IF e = -1 THEN n = 1 \/ (n = 0 /\ fractionIsZero)
        ELSE IF e > 30 THEN FALSE                         \* value >= 2^31
        ELSE LET whole == Pow2(e) + IntegerPart(bytes, e, 1)
                 half == FractionBit(bytes, e + 1) = 1
                 restIsZero == \A k \in (e + 2)..52 : FractionBit(bytes, k) = 0
             IN  \/ whole = n /\ (~half \/ restIsZero)
                 \/ whole = n - 1 /\ half

\* The largest timestamp written, in TimecodeScale units.
MaxWrittenTicks ==
    CHOOSE t \in {TicksOf(written[i].timestampNs) : i \in 1..Len(written)} :
        \A i \in 1..Len(written) : TicksOf(written[i].timestampNs) <= t

\* The 8 bytes of the Duration element's value in SegmentInfo.
DurationField == SubSeq(output, TracksPos - 7, TracksPos)

(***************************************************************************)
(* C10: after finalize() of a session that wrote at least one frame, the   *)
(* Duration field of SegmentInfo, read as a float, is within 0.5 of the    *)
(* largest frame timestamp in TimecodeScale units.                         *)
(***************************************************************************)
C10_DurationIsLargestTimestamp ==
    (JustFinalized /\ Len(written) > 0)
    => Float64WithinHalf(DurationField, MaxWrittenTicks)

(***************************************************************************)
(* A caller that keeps to the documented contract: registered codecs and   *)
(* non-zero dimensions, tracks declared before the first frame, frames on  *)
(* handles of the right kind with non-empty payloads and timestamps that   *)
(* never decrease on a track, nothing but finalize() after finalize().     *)
(***************************************************************************)
AudioPayload == <<79, 103>>

ContractVideoTracks == {[width |-> 640, height |-> 480, codecId |-> Str_V_VP8]}

ContractAudioTracks == {[samplingFrequency |-> 48000, channels |-> 2, codecId |-> Str_A_OPUS]}

ContractVideoTimestamps == {Ns(0, 0), Ns(32767, 0), Ns(32768, 0), Ns(40000, 0)}

ContractAudioTimestamps == {Ns(0, 0), Ns(40000, 0)}

\* The handles add calls returned for tracks of the given type.
Handles(type) == {tracks[i].id : i \in {j \in 1..Len(tracks) : tracks[j].type = type}}

\* No frame written to the track so far is later than timestampNs.
InOrder(trackId, timestampNs) ==
    \A i \in 1..Len(written) :
        written[i].trackId = trackId => ~NsLess(timestampNs, written[i].timestampNs)

ContractVideoFrames ==
    {in \in [trackId : Handles(VIDEO), frameData : {Payload},
             timestampNs : ContractVideoTimestamps, isKeyframe : {TRUE}] :
        InOrder(in.trackId, in.timestampNs)}

ContractAudioFrames ==
    {in \in [trackId : Handles(AUDIO), frameData : {AudioPayload},
             timestampNs : ContractAudioTimestamps] :
        InOrder(in.trackId, in.timestampNs)}

ContractAddVideoTrack ==
    written = <<>> /\ finalizeCalls = 0 /\ AddVideoTrack(ContractVideoTracks)

ContractAddAudioTrack ==
    written = <<>> /\ finalizeCalls = 0 /\ AddAudioTrack(ContractAudioTracks)

ContractWriteVideoFrame == finalizeCalls = 0 /\ WriteVideoFrame(ContractVideoFrames)

ContractWriteAudioFrame == finalizeCalls = 0 /\ WriteAudioFrame(ContractAudioFrames)

ContractFinalize == Len(tracks) > 0 /\ Finalize

ContractNext ==
    \/ ContractAddVideoTrack
    \/ ContractAddAudioTrack
    \/ ContractWriteVideoFrame
    \/ ContractWriteAudioFrame
    \/ ContractFinalize

ContractSpec == Init /\ [][ContractNext]_vars

(***************************************************************************)
(* C11: finalize() is idempotent.  A finalize() that directly follows a    *)
(* finalize() returns the bytes the earlier one returned, byte for byte    *)
(* and in length.                                                          *)
(***************************************************************************)
C11_FinalizeIdempotent ==
    (JustFinalized /\ last.before.op = "finalize")
    => Len(output) = Len(last.before.output) /\ output = last.before.output

\* C11: a second finalize() in a row has returned, on a session with frames.
C11_Witness ==
    /\ JustFinalized /\ last.before.op = "finalize"
    /\ Len(written) > 0 /\ Len(output) > 0

\* The SimpleBlocks of a muxer stream from pos on, in stream order: a Cluster
\* ID is followed by the 5 bytes of its size field and Timecode element, a
\* SimpleBlock ID by its size and payload.  Any other byte ends the walk with
\* a block that matches no write.
RECURSIVE BlocksInStream(_, _, _)
BlocksInStream(buf, pos, acc) ==
    IF pos >= Len(buf) THEN acc
    ELSE IF pos + 9 <= Len(buf) /\ SubSeq(buf, pos + 1, pos + 4) = writeElementId(524531317)
    THEN BlocksInStream(buf, pos + 9, acc)
    ELSE LET size == readVint(buf, pos + 1)
         IN  IF ByteAt(buf, pos) = 163 /\ size.ok /\ size.value >= 4
                /\ pos + 1 + size.length + size.value <= Len(buf)
             THEN LET start == pos + 1 + size.length
                  IN  BlocksInStream(buf, start + size.value,
                        Append(acc, [trackId |-> ByteAt(buf, start) % 128,
                                     data |-> Slice(buf, start + 4, start + size.value)]))
             ELSE Append(acc, [trackId |-> -1, data |-> <<>>])

\* The frame writes made so far, as the blocks they should have produced.
BlocksWritten ==
    [i \in 1..Len(written) |->
        [trackId |-> written[i].trackId, data |-> written[i].frameData]]

(***************************************************************************)
(* C12: the SimpleBlocks in the muxer's stream are, in stream order, the   *)
(* frame writes in call order, one block per write, whatever the tracks    *)
(* they alternate between; a later write or finalize() changes none.       *)
(***************************************************************************)
C12_BlocksInWriteOrder ==
    Len(written) > 0 => BlocksInStream(buffer, TracksEnd, <<>>) = BlocksWritten

\* C12: frames of two tracks were written alternately (video, audio, ...).
C12_Witness ==
    /\ Len(written) >= 2
    /\ written[1].trackId # written[2].trackId
    /\ BlocksInStream(buffer, TracksEnd, <<>>) = BlocksWritten

(***************************************************************************)
(* C13: a frame write starts a new cluster whenever no cluster is open or  *)
(* its timestamp in TimecodeScale units minus the open cluster's base      *)
(* exceeds 32767; the new cluster's base is that timestamp and the frame   *)
(* goes into it.  So frames at 0 and at 40000 ticks make two clusters.     *)
(***************************************************************************)
C13_NewClusterWhenDeltaTooLarge ==
    (last.op \in WriteOps
     /\ (last.before.base = -1
         \/ TicksOf(last.arg.timestampNs) - last.before.base > 32767))
    => /\ Len(clusters) = last.before.clustersLen + 1
       /\ clusters[Len(clusters)].timecode = TicksOf(last.arg.timestampNs)
       /\ written[Len(written)].cluster = Len(clusters)

\* C13: a frame at 0 and then one exactly 32768 ticks later: two clusters.
C13_Witness ==
    /\ last.op \in WriteOps
    /\ last.before.base = 0
    /\ TicksOf(last.arg.timestampNs) = 32768
    /\ Len(clusters) = 2

(***************************************************************************)
(* Creating a parser from a buffer.  A buffer is [bytes, length]: length   *)
(* is buffer.length and bytes are the bytes it begins with (all of them    *)
(* unless the buffer is one the constructor rejects for its length).       *)
(***************************************************************************)
MAX_FILE_SIZE == 64 * 1024 * 1024

\* validateWebMBasic(buffer): new MinimalWebMParser(buffer).parse() inside a
\* try block.  A parse that never returns is reported as such.
validateWebMBasic(src) ==
    IF src.length > MAX_FILE_SIZE THEN [valid |-> FALSE, hang |-> FALSE]
    ELSE CHOOSE validation \in
            {IF r.threw THEN [valid |-> FALSE, hang |-> FALSE]
             ELSE IF r.hang THEN [valid |-> FALSE, hang |-> TRUE]
             ELSE [valid |-> TRUE, hang |-> FALSE, metadata |-> r.metadata] :
                r \in {parse(src.bytes)}} : TRUE

\* WebMFile.fromBuffer(buffer) / WebMParser.createFromBuffer(buffer)
fromBuffer(src) ==
    CHOOSE f \in
        {IF validation.hang THEN [state |-> "hang"]
         ELSE IF ~validation.valid THEN [state |-> "threw"]
         ELSE [state |-> "parsed", metadata |-> validation.metadata] :
            validation \in {validateWebMBasic(src)}} : TRUE

FromBuffer ==
    /\ layout.kind # "none"
    /\ file = NoFile
    /\ file' = fromBuffer(source)
    /\ UNCHANGED <<layout, source, cursor, element, frameIndex, calls, answer>>
    /\ UNCHANGED muxerVars

\* One readElement() call of a parser over the buffer, at its cursor.
ReadElement ==
    /\ layout.kind # "none"
    /\ source.length = Len(source.bytes)
    /\ cursor >= 0 /\ cursor < Len(source.bytes)
    /\ \E e \in {readElement(source.bytes, cursor)} :
       \E id \in {readElementId(source.bytes, cursor)} :
          /\ element' = [called |-> TRUE, at |-> cursor, result |-> e]
          \* readElementId() has moved this.pos when readVint() returns null
          /\ cursor' = IF e.ok THEN e.pos
                       ELSE IF id.ok THEN cursor + id.length ELSE cursor
    /\ UNCHANGED <<layout, source, file, frameIndex, calls, answer>>
    /\ UNCHANGED muxerVars

ParserNext == FromBuffer \/ ReadElement

(***************************************************************************)
(* The buffers given to the parser.  A file is assembled from a layout: a  *)
(* DocType, a TimecodeScale, an optional MuxingApp string, two tracks, and *)
(* blocks in file order, block i carrying the one payload byte i; the      *)
(* blocks in starts open a new Cluster, the k-th Cluster having Timecode   *)
(* (k - 1) * 1000.  Sizes are written in the shortest form.                *)
(***************************************************************************)
SizeField(n) == IF n < 127 THEN <<128 + n>> ELSE <<64 + (n \div 256), n % 256>>

Element(idBytes, payload) == idBytes \o SizeField(Len(payload)) \o payload

Int16Bytes(d) == <<((d + 65536) \div 256) % 256, (d + 65536) % 256>>

Uint32Bytes(v) == <<(v \div 16777216) % 256, (v \div 65536) % 256, (v \div 256) % 256, v % 256>>

ClusterTimecode(k) == (k - 1) * 1000

\* The three frames of 4 bytes of a block with Fixed lacing.
LacedFrames == <<<<17, 18, 19, 20>>, <<33, 34, 35, 36>>, <<49, 50, 51, 52>>>>

\* What follows the flags byte: the one byte tag, or for Fixed lacing the
\* lacing-count byte (frame count minus 1) and the frames.
FramePayload(b, tag) ==
    IF b.laced THEN <<Len(LacedFrames) - 1>> \o LacedFrames[1] \o LacedFrames[2] \o LacedFrames[3]
    ELSE <<tag>>

\* track number (VINT of 1 or 2 bytes), relative timecode, flags, payload
BlockPayload(b, tag) ==
    (IF b.trackLen = 2 THEN <<64, b.track>> ELSE <<128 + b.track>>)
    \o Int16Bytes(b.delta) \o <<b.flags>> \o FramePayload(b, tag)

\* A SimpleBlock, or a BlockGroup holding a Block and, if the block refers
\* to an earlier one, a ReferenceBlock (0xFB) of -1.
BlockElement(b, tag) ==
    IF b.kind = "simple" THEN Element(<<163>>, BlockPayload(b, tag))
    ELSE Element(<<160>>, Element(<<161>>, BlockPayload(b, tag))
                          \o (IF b.reference THEN Element(<<251>>, <<255>>) ELSE <<>>))

ClusterElement(k, body) ==
    Element(<<31, 67, 182, 117>>,
            Element(<<231>>, <<ClusterTimecode(k) \div 256, ClusterTimecode(k) % 256>>)
            \o body)

\* The Cluster elements of blocks i, i + 1, ...: k clusters were opened, body
\* is what the open one holds.
RECURSIVE ClustersFrom(_, _, _, _, _)
ClustersFrom(blocks, starts, i, k, body) ==
    IF i > Len(blocks) THEN (IF k = 0 THEN <<>> ELSE ClusterElement(k, body))
    ELSE IF k = 0 THEN ClustersFrom(blocks, starts, i + 1, 1, BlockElement(blocks[i], i))
    ELSE IF i \in starts
    THEN ClusterElement(k, body)
         \o ClustersFrom(blocks, starts, i + 1, k + 1, BlockElement(blocks[i], i))
    ELSE ClustersFrom(blocks, starts, i + 1, k, body \o BlockElement(blocks[i], i))

Str_matroska == <<109, 97, 116, 114, 111, 115, 107, 97>>

Str_libwebm == <<108, 105, 98, 119, 101, 98, 109>>

EBMLHeaderElement(docType) ==
    Element(<<26, 69, 223, 163>>,
            Element(<<66, 130>>, docType) \o Element(<<66, 135>>, <<2>>)
            \o Element(<<66, 133>>, <<2>>))

SegmentInfoElement(l) ==
    Element(<<21, 73, 169, 102>>,
            Element(<<42, 215, 177>>, Uint32Bytes(l.scale))
            \o (IF l.muxingApp = <<>> THEN <<>> ELSE Element(<<77, 128>>, l.muxingApp)))

TrackEntryElement(number, type, codecId) ==
    Element(<<174>>, Element(<<215>>, <<number>>) \o Element(<<131>>, <<type>>)
                     \o Element(<<134>>, codecId))

TracksElement ==
    Element(<<22, 84, 174, 107>>,
            TrackEntryElement(1, VIDEO, Str_V_VP8) \o TrackEntryElement(2, AUDIO, Str_A_OPUS))

SegmentPayload(l) ==
    SegmentInfoElement(l) \o l.insert \o TracksElement
    \o ClustersFrom(l.blocks, l.starts, 1, 0, <<>>)

UnknownSize == <<1, 255, 255, 255, 255, 255, 255, 255>>

FileBytes(l) ==
    LET payload == SegmentPayload(l)
        whole == EBMLHeaderElement(l.docType) \o <<24, 83, 128, 103>>
                 \o (IF l.unknownSize THEN UnknownSize ELSE SizeField(Len(payload)))
                 \o payload
    IN  SubSeq(whole, 1, Len(whole) - l.cut)

\* The cluster block i lies in, and its timestamp in TimecodeScale units.
ClusterOf(l, i) == 1 + Cardinality({j \in l.starts : j <= i})

BlockTicks(l, i) == ClusterTimecode(ClusterOf(l, i)) + l.blocks[i].delta

SimpleOnTrack1 ==
    [kind |-> "simple", track |-> 1, trackLen |-> 1, delta |-> 0, flags |-> 128,
     laced |-> FALSE, reference |-> FALSE]

SimpleOnTrack2 ==
    [kind |-> "simple", track |-> 2, trackLen |-> 1, delta |-> 7, flags |-> 0,
     laced |-> FALSE, reference |-> FALSE]

GroupOnTrack1 ==
    [kind |-> "group", track |-> 1, trackLen |-> 1, delta |-> 3, flags |-> 0,
     laced |-> FALSE, reference |-> FALSE]

\* a block 5 ticks before its cluster's Timecode
EarlyBlock ==
    [kind |-> "simple", track |-> 1, trackLen |-> 1, delta |-> -5, flags |-> 128,
     laced |-> FALSE, reference |-> FALSE]

\* a block whose track number is a VINT of two bytes
WideTrackBlock ==
    [kind |-> "simple", track |-> 1, trackLen |-> 2, delta |-> 3, flags |-> 128,
     laced |-> FALSE, reference |-> FALSE]

\* a SimpleBlock with Fixed lacing (flags 0x04) and three frames
FixedLacedBlock ==
    [kind |-> "simple", track |-> 1, trackLen |-> 1, delta |-> 0, flags |-> 132,
     laced |-> TRUE, reference |-> FALSE]

\* a BlockGroup whose Block refers to an earlier block
GroupWithReference ==
    [kind |-> "group", track |-> 1, trackLen |-> 1, delta |-> 3, flags |-> 0,
     laced |-> FALSE, reference |-> TRUE]

UsualBlocks == {SimpleOnTrack1, SimpleOnTrack2, GroupOnTrack1}

EdgeBlocks ==
    UsualBlocks \cup {EarlyBlock, WideTrackBlock, FixedLacedBlock, GroupWithReference}

BlockSeqs(shapes, n) == UNION {[1..k -> shapes] : k \in 0..n}

PlainLayout(blocks, starts) ==
    [kind |-> "file", docType |-> Str_webm, muxingApp |-> <<>>, scale |-> 1000000,
     unknownSize |-> FALSE, cut |-> 0, insert |-> <<>>, blocks |-> blocks,
     starts |-> starts]

PlainLayouts(shapes, n) ==
    UNION {{PlainLayout(b, st) :
                st \in {x \in SUBSET (2..Len(b)) : Cardinality(x) < MaxClusters}} :
           b \in BlockSeqs(shapes, n)}

\* An element with id 0xEC whose size field of 5 bytes is 08 FF FF FF FA.
BackwardElement == <<236, 8, 255, 255, 255, 250>>

\* The same file with another TimecodeScale, another DocType (alone, or with
\* a MuxingApp string), a Segment of unknown size, its last 2 bytes missing,
\* or BackwardElement between SegmentInfo and Tracks.
Variants(l) ==
    {l,
     [l EXCEPT !.scale = 500000],
     [l EXCEPT !.docType = Str_matroska],
     [l EXCEPT !.docType = Str_matroska, !.muxingApp = Str_libwebm],
     [l EXCEPT !.unknownSize = TRUE],
     [l EXCEPT !.cut = 2],
     [l EXCEPT !.insert = BackwardElement]}

EdgeLayouts == UNION {Variants(l) : l \in PlainLayouts(EdgeBlocks, MaxEdgeBlocks)}

RawLayout == [NoLayout EXCEPT !.kind = "raw"]

Buffer(bytes) == [bytes |-> bytes, length |-> Len(bytes)]

\* Buffers that are no files: up to MaxRawLen bytes drawn from the bytes of
\* the EBML magic and 0, alone or followed by what follows the magic in a
\* file; [1, 2, 3, 4]; and a buffer of 65 MiB that begins as a file does.
RawBytes == {0, 26, 69, 223, 163}

RawTails == {<<>>, SubSeq(FileBytes(PlainLayout(<<>>, {})), 5,
                           Len(FileBytes(PlainLayout(<<>>, {}))))}

RawSources ==
    {Buffer(h \o t) : h \in BlockSeqs(RawBytes, MaxRawLen), t \in RawTails}
    \cup {Buffer(<<1, 2, 3, 4>>),
          [bytes |-> FileBytes(PlainLayout(<<>>, {})), length |-> 65 * 1024 * 1024]}

ParserInit(layouts, raws) ==
    /\ NewMuxer
    /\ file = NoFile
    /\ cursor = 0
    /\ element = NoElement
    /\ NewReader
    /\ \/ \E l \in layouts : layout = l /\ source = Buffer(FileBytes(l))
       \/ \E r \in raws : layout = RawLayout /\ source = r

\* Files of the usual kind, and buffers that are no files.
ParserSpec ==
    ParserInit(PlainLayouts(UsualBlocks, MaxBlocks), RawSources) /\ [][ParserNext]_vars

\* Files with an unusual header, size, block or end.
ParserEdgeSpec == ParserInit(EdgeLayouts, {}) /\ [][ParserNext]_vars

(***************************************************************************)
(* Creating a parser from a buffer that is no file.                        *)
(***************************************************************************)
EBMLMagic == <<26, 69, 223, 163>>

BeginsWithMagic(bytes) == Len(bytes) >= 4 /\ SubSeq(bytes, 1, 4) = EBMLMagic

\* C14: createFromBuffer / fromBuffer throws, and returns no parser, for
\* every buffer that is empty, that does not begin with the EBML magic bytes
\* 1A 45 DF A3, or that is larger than 64 MiB.
C14_RejectsEmptyNonMagicOversize ==
    (/\ file # NoFile
     /\ \/ source.length = 0
        \/ ~BeginsWithMagic(source.bytes)
        \/ source.length > MAX_FILE_SIZE)
    => file.state = "threw"

\* C14: the buffer [0, 0, 0, 0] was given to fromBuffer and it threw.
C14_Witness ==
    /\ source = Buffer(<<0, 0, 0, 0>>)
    /\ file # NoFile
    /\ file.state = "threw"

(***************************************************************************)
(* Files with an unusual header, Segment size, block or end.               *)
(***************************************************************************)
\* C15: parsing fails for every buffer whose EBML Header DocType is not
\* exactly "webm", whatever the other bytes of the file are.
C15_NonWebmDocTypeRejected ==
    (/\ layout.kind = "file"
     /\ layout.docType # Str_webm
     /\ file # NoFile)
    => file.state = "threw"

\* The same file with the Segment's true size in its size field.
WithTrueSize(l) == [l EXCEPT !.unknownSize = FALSE]

\* C16: a file whose Segment size is the unknown-length encoding
\* 01 FF FF FF FF FF FF FF parses to all the tracks and all the frames of
\* its Clusters, the same as with the Segment's true size.
C16_UnknownSizeSegmentParsed ==
    (/\ layout.kind = "file"
     /\ layout.unknownSize
     /\ file # NoFile)
    => file = fromBuffer(Buffer(FileBytes(WithTrueSize(layout))))

\* C17: readElement returns no element when the declared payload extends
\* beyond the end of the buffer; an element it returns has a payload as long
\* as its declared size.
C17_ReadElementTruncated ==
    (element.called /\ element.result.ok)
    => Len(element.result.data) >= element.result.size

\* The frames of the parsed file.
Frames == file.metadata.frames

\* C18: every frame the parser produces from a block has the timestamp
\* (Timecode of the enclosing Cluster + the block's signed 16-bit delta) x
\* TimecodeScale of the SegmentInfo, when SegmentInfo precedes the Cluster
\* (as in every file here) and the sum is not negative.
C18_FrameTimestampFormula ==
    (layout.kind = "file" /\ file.state = "parsed")
    => \A i \in 1..Len(Frames) :
          (i <= Len(layout.blocks) /\ BlockTicks(layout, i) >= 0)
          => Frames[i].timestampNs = TimesScale(BlockTicks(layout, i), layout.scale)

\* ticks x scale >= 0
NonNegativeNs(ns) ==
    \/ ns.ticks >= 0 /\ ns.scale >= 0
    \/ ns.ticks <= 0 /\ ns.scale <= 0

\* C19: every frame of the parser has timestamp_ns >= 0; a negative sum of
\* Cluster Timecode and relative delta is clamped to zero.
C19_TimestampNeverNegative ==
    (layout.kind = "file" /\ file.state = "parsed")
    => \A i \in 1..Len(Frames) : NonNegativeNs(Frames[i].timestampNs)

(***************************************************************************)
(* The order of the parser's frames.  Block i of a layout carries the one  *)
(* payload byte i, and the blocks lie in the buffer in the order of their  *)
(* numbers, so the last byte of a frame's data says which block it came    *)
(* from.                                                                   *)
(***************************************************************************)
BlockOfFrame(frame) == IF frame.data = <<>> THEN 0 ELSE frame.data[Len(frame.data)]

\* C20: the frames are in strict file order: frame i comes from the i-th
\* block of the buffer (encounter order inside a Cluster, Clusters in file
\* order), with no reordering or grouping by track.
C20_FramesInFileOrder ==
    (layout.kind = "file" /\ file.state = "parsed")
    => /\ Len(Frames) = Len(layout.blocks)
       /\ \A i \in 1..Len(Frames) :
             /\ BlockOfFrame(Frames[i]) = i
             /\ Frames[i].trackNumber = layout.blocks[i].track

\* C20: a file was parsed whose three blocks lie in two Clusters and
\* alternate between the tracks: track 1, track 2, then a BlockGroup on
\* track 1.
C20_Witness ==
    /\ file.state = "parsed"
    /\ layout.blocks = <<SimpleOnTrack1, SimpleOnTrack2, GroupOnTrack1>>
    /\ layout.starts = {3}
    /\ Len(Frames) = 3
    /\ Frames[2].trackNumber = 2
    /\ Frames[3].trackNumber = 1

(***************************************************************************)
(* Reading the frames of a parsed file: WebMParser.readNextVideoFrame,     *)
(* resetFramePosition, getFramesForTrack and getFrameCount, each of which  *)
(* calls the WebMFile method of the same name.                             *)
(***************************************************************************)
\* calls made on one parsed file
MaxCalls == 5

\* blocks of a file whose frames are read track by track
MaxReadBlocks == 3

TrackIndexes == {0, 1}

\* The loop of readNextVideoFrame() giving up at the first frame of another
\* track.
NextFrameFromOrGiveUp(frames, idx, trackIndex) ==
    IF idx >= Len(frames) THEN [frameIndex |-> idx, found |-> 0]
    ELSE IF frames[idx + 1].trackNumber = trackIndex + 1
    THEN [frameIndex |-> idx + 1, found |-> idx + 1]
    ELSE [frameIndex |-> idx + 1, found |-> 0]

\* The while loop of readNextVideoFrame(trackIndex) from frame index idx
\* (0-based): the index after the call, and the 1-based position of the
\* frame returned (0 for null).
RECURSIVE NextFrameFrom(_, _, _)
NextFrameFrom(frames, idx, trackIndex) ==
    IF idx >= Len(frames) THEN [frameIndex |-> idx, found |-> 0]
    ELSE IF frames[idx + 1].trackNumber = trackIndex + 1
    THEN [frameIndex |-> idx + 1, found |-> idx + 1]
    ELSE NextFrameFrom(frames, idx + 1, trackIndex)

\* What readNextVideoFrame returns for a frame.
FrameData(frame) ==
    [timestampNs |-> frame.timestampNs, data |-> frame.data,
     isKeyframe |-> frame.isKeyframe, trackNumber |-> frame.trackNumber]

\* WebMFile.getFramesForTrack(trackIndex)
getFramesForTrack(frames, trackIndex) ==
    SelectSeq(frames, LAMBDA frame : frame.trackNumber = trackIndex + 1)

\* WebMFile.getFrameCount()
getFrameCount(f) == IF f.state = "parsed" THEN Len(f.metadata.frames) ELSE 0

ReadNextVideoFrame ==
    /\ file.state = "parsed"
    /\ Len(calls) < MaxCalls
    /\ \E trackIndex \in TrackIndexes :
          \E r \in {NextFrameFrom(file.metadata.frames, frameIndex, trackIndex)} :
             /\ frameIndex' = r.frameIndex
             /\ calls' = Append(calls, [op |-> "readNextVideoFrame",
                                        trackIndex |-> trackIndex, found |-> r.found])
             /\ answer' = [op |-> "readNextVideoFrame", trackIndex |-> trackIndex,
                           before |-> frameIndex,
                           result |-> IF r.found = 0 THEN Null
                                      ELSE FrameData(file.metadata.frames[r.found])]
    /\ UNCHANGED <<layout, source, file, cursor, element>>
    /\ UNCHANGED muxerVars

ResetFramePosition ==
    /\ file.state = "parsed"
    /\ Len(calls) < MaxCalls
    /\ frameIndex' = 0
    /\ calls' = Append(calls, [op |-> "resetFramePosition", trackIndex |-> -1, found |-> 0])
    /\ answer' = [op |-> "resetFramePosition", before |-> frameIndex]
    /\ UNCHANGED <<layout, source, file, cursor, element>>
    /\ UNCHANGED muxerVars

GetFramesForTrack ==
    /\ file.state = "parsed"
    /\ \E trackIndex \in TrackIndexes :
          answer' = [op |-> "getFramesForTrack", trackIndex |-> trackIndex,
                     before |-> frameIndex,
                     result |-> getFramesForTrack(file.metadata.frames, trackIndex)]
    /\ UNCHANGED <<layout, source, file, cursor, element, frameIndex, calls>>
    /\ UNCHANGED muxerVars

GetFrameCount ==
    /\ file.state = "parsed"
    /\ answer' = [op |-> "getFrameCount", before |-> frameIndex,
                  result |-> getFrameCount(file)]
    /\ UNCHANGED <<layout, source, file, cursor, element, frameIndex, calls>>
    /\ UNCHANGED muxerVars

ReaderNext ==
    \/ FromBuffer
    \/ ReadNextVideoFrame
    \/ ResetFramePosition
    \/ GetFramesForTrack
    \/ GetFrameCount

\* Files of up to MaxReadBlocks SimpleBlocks, each on track 1 or track 2.
ReaderLayouts ==
    {PlainLayout(b, {}) : b \in BlockSeqs({SimpleOnTrack1, SimpleOnTrack2}, MaxReadBlocks)}

ReaderSpec == ParserInit(ReaderLayouts, {}) /\ [][ReaderNext]_vars

\* The positions of the frames returned by the calls for track index t, in
\* call order.
RECURSIVE ReturnedFor(_, _)
ReturnedFor(cs, t) ==
    IF cs = <<>> THEN <<>>
    ELSE LET c == cs[Len(cs)]
             rest == ReturnedFor(SubSeq(cs, 1, Len(cs) - 1), t)
         IN  IF c.op = "readNextVideoFrame" /\ c.trackIndex = t /\ c.found # 0
             THEN Append(rest, c.found) ELSE rest

\* The positions of the frames of track index t, in file order.
PositionsOf(frames, t) == {i \in 1..Len(frames) : frames[i].trackNumber = t + 1}

NoReset(cs) == \A k \in 1..Len(cs) : cs[k].op # "resetFramePosition"

\* C21: over any sequence of readNextVideoFrame calls on one parsed file, a
\* call for track t returns null only when every frame of t was returned by
\* an earlier call for t; each frame of t is returned once and in file order.
C21_EveryTrackReadToItsEnd ==
    (file.state = "parsed" /\ NoReset(calls))
    => \A t \in TrackIndexes :
          /\ \A k \in 1..Len(calls) :
                (calls[k].trackIndex = t /\ calls[k].found = 0)
                => {ReturnedFor(SubSeq(calls, 1, k), t)[n] :
                        n \in 1..Len(ReturnedFor(SubSeq(calls, 1, k), t))}
                   = PositionsOf(file.metadata.frames, t)
          /\ \A m, n \in 1..Len(ReturnedFor(calls, t)) :
                m < n => ReturnedFor(calls, t)[m] < ReturnedFor(calls, t)[n]

\* calls[k] is a resetFramePosition() and calls[k + 1 .. m] are the
\* readNextVideoFrame(t) calls that follow it up to the first null.
ReadToEndAfterReset(k, m, t) ==
    /\ calls[k].op = "resetFramePosition"
    /\ \A j \in (k + 1)..m :
          /\ calls[j].op = "readNextVideoFrame"
          /\ calls[j].trackIndex = t
          /\ (calls[j].found = 0) = (j = m)

\* C30: after resetFramePosition(), readNextVideoFrame(i) repeated for one
\* track index i until null yields the frames of getFramesForTrack(i) in the
\* same order, wherever the cursor was at the reset; getFramesForTrack and
\* getFrameCount leave the cursor alone, and getFrameCount is the number of
\* the file's frames after any reads and resets.
C30_ResetThenReadIsFramesForTrack ==
    file.state = "parsed"
    => /\ \A t \in TrackIndexes : \A k \in 1..Len(calls) : \A m \in (k + 1)..Len(calls) :
             ReadToEndAfterReset(k, m, t)
             => [j \in 1..(m - k - 1) |-> file.metadata.frames[calls[k + j].found]]
                = getFramesForTrack(file.metadata.frames, t)
       /\ answer.op \in {"getFramesForTrack", "getFrameCount"}
             => frameIndex = answer.before
       /\ answer.op = "getFrameCount" => answer.result = Len(layout.blocks)

\* C30: on a file with blocks on tracks 1, 2, 1 the cursor was moved by a
\* read for track index 1, then reset, and track index 0 was read to its end:
\* frames 1 and 3, then null.
C30_Witness ==
    /\ file.state = "parsed"
    /\ layout.blocks = <<SimpleOnTrack1, SimpleOnTrack2, SimpleOnTrack1>>
    /\ Len(calls) = 5
    /\ calls[1].found = 2
    /\ ReadToEndAfterReset(2, 5, 0)
    /\ calls[3].found = 1 /\ calls[4].found = 3

(***************************************************************************)
(* Blocks with lacing, BlockGroups, and elements the parser has no case    *)
(* for.                                                                    *)
(***************************************************************************)
\* A whole file with its Segment's true size; every block has Fixed lacing.
WholeLacedFile ==
    /\ layout.kind = "file"
    /\ layout.cut = 0 /\ ~layout.unknownSize /\ layout.insert = <<>>
    /\ layout.blocks # <<>>
    /\ \A i \in 1..Len(layout.blocks) : layout.blocks[i].laced

\* C22: a SimpleBlock with Fixed lacing whose payload after the flags byte
\* is the lacing-count byte 2 and 12 frame bytes yields three frames of 4
\* bytes each, with the slices in order and the block's timestamp; never one
\* frame that holds the lacing header.
C22_FixedLacingYieldsThreeFrames ==
    (WholeLacedFile /\ file.state = "parsed")
    => /\ Len(Frames) = Len(LacedFrames) * Len(layout.blocks)
       /\ \A i \in 1..Len(layout.blocks) : \A j \in 1..Len(LacedFrames) :
             /\ Frames[Len(LacedFrames) * (i - 1) + j].data = LacedFrames[j]
             /\ Frames[Len(LacedFrames) * (i - 1) + j].timestampNs
                = TimesScale(BlockTicks(layout, i), layout.scale)

\* blocks of a file that holds a Void element
MaxVoidBlocks == 2

\* 100 payload bytes of a Void element: zeros, ones, a count, and the
\* bytes of a Cluster with a SimpleBlock followed by zeros.
ClusterLikePayload ==
    [i \in 1..100 |->
        IF i <= Len(ClusterElement(1, BlockElement(SimpleOnTrack1, 9)))
        THEN ClusterElement(1, BlockElement(SimpleOnTrack1, 9))[i] ELSE 0]

VoidPayloads ==
    {[i \in 1..100 |-> 0], [i \in 1..100 |-> 255], [i \in 1..100 |-> i], ClusterLikePayload}

VoidElement(payload) == Element(<<236>>, payload)

\* Files with a Void element between SegmentInfo and Tracks.
VoidLayouts ==
    {[l EXCEPT !.insert = VoidElement(payload)] :
        l \in PlainLayouts(UsualBlocks, MaxVoidBlocks), payload \in VoidPayloads}

ParserVoidSpec == ParserInit(VoidLayouts, {}) /\ [][ParserNext]_vars

\* The same file without the element between SegmentInfo and Tracks.
WithoutInsert(l) == [l EXCEPT !.insert = <<>>]

\* C23: a Void element (0xEC) with 100 arbitrary payload bytes between
\* SegmentInfo and Tracks, the Segment size adjusted, does not change the
\* parse result: timecode scale, duration, tracks and frames are those of
\* the same file without it.
C23_VoidElementIgnored ==
    (/\ layout.kind = "file"
     /\ layout.insert # <<>>
     /\ file # NoFile)
    => /\ file.state = "parsed"
       /\ file = fromBuffer(Buffer(FileBytes(WithoutInsert(layout))))

\* C23: a file with a Void element whose payload looks like a Cluster, and
\* with two blocks of its own, was parsed to two tracks and two frames.
C23_Witness ==
    /\ layout.insert = VoidElement(ClusterLikePayload)
    /\ Len(layout.blocks) = 2
    /\ file.state = "parsed"
    /\ Len(file.metadata.tracks) = 2
    /\ Len(Frames) = 2

(***************************************************************************)
(* The VINT round trip: the muxer's writeVint(value), then a parser's      *)
(* readVint() over the bytes written.  A value is a JavaScript number      *)
(* below 2^56, kept as [hi, lo] with value = hi * 2^28 + lo.               *)
(***************************************************************************)
TwoTo28 == 268435456

\* writeVint(value) for a value of any size: the shifts work on the value's
\* low 32 bits, so from 2^31 on the last branch pushes 0x08 and the bytes
\* of value modulo 2^32.
writeVintOfNumber(w) ==
    IF w.hi < 8 THEN writeVint(w.hi * TwoTo28 + w.lo)
    ELSE <<8, (w.hi % 16) * 16 + (w.lo \div 16777216), ShrByte(w.lo, 16),
           ShrByte(w.lo, 8), w.lo % 256>>

\* Values at the edges of the widths 1 to 8, of 2^31 and of 2^32.  Each is
\* a JavaScript number: from 2^53 = 33554432 * 2^28 on, the ones here lie
\* above 2^55 and are multiples of 8.
VintValues ==
    {w \in [hi : {0, 1, 7, 8, 15, 16, 127, 128, 16383, 268435455},
            lo : {0, 1, 126, 127, 128, 16383, 16384, 2097151, 2097152, 268435448,
                  268435454}] :
        w.hi < 33554432 \/ w.lo % 8 = 0}

WriteVint ==
    /\ last.op = "new"
    /\ buffer = <<>>
    /\ layout = NoLayout
    /\ \E w \in VintValues :
          /\ buffer' = buffer \o writeVintOfNumber(w)
          /\ last' = [op |-> "writeVint", threw |-> FALSE, before |-> Before, arg |-> w]
    /\ UNCHANGED <<tracks, clusters, currentCluster, nextTrackId, writtenHeader,
                   written, output, finalizeCalls>>
    /\ UNCHANGED parserVars

\* A parser over the muxer's bytes reads one VINT.
ReadVint ==
    /\ last.op = "writeVint"
    /\ ~element.called
    /\ layout' = [NoLayout EXCEPT !.kind = "written"]
    /\ source' = Buffer(buffer)
    /\ \E r \in {readVint(buffer, 0)} :
          /\ element' = [called |-> TRUE, at |-> 0, result |-> r]
          /\ cursor' = IF r.ok THEN r.length ELSE 0
    /\ UNCHANGED <<file, frameIndex, calls, answer>>
    /\ UNCHANGED muxerVars

VintNext == WriteVint \/ ReadVint

VintSpec == Init /\ [][VintNext]_vars

\* The least L in 1..8 with value < 2^(7 * L).
MinWidth(w) ==
    IF w.hi = 0
    THEN (IF w.lo < 128 THEN 1 ELSE IF w.lo < 16384 THEN 2
          ELSE IF w.lo < 2097152 THEN 3 ELSE 4)
    ELSE IF w.hi < 128 THEN 5 ELSE IF w.hi < 16384 THEN 6
    ELSE IF w.hi < 2097152 THEN 7 ELSE 8

\* C24: for every value v with 0 <= v < 2^56 - 1, readVint over the bytes
\* of writeVint(v) returns v and consumes exactly the bytes written, and
\* writeVint uses the least width L such that v fits in 7 * L bits.
C24_VintRoundTrip ==
    (last.op = "writeVint" /\ element.called)
    => /\ element.result.ok
       /\ last.arg.hi < 8
       /\ element.result.value = last.arg.hi * TwoTo28 + last.arg.lo
       /\ element.result.length = Len(buffer)
       /\ Len(buffer) = MinWidth(last.arg)

(***************************************************************************)
(* Termination of the parser's loops.                                      *)
(***************************************************************************)
\* C25: parsing ends on every buffer: a readElement call that returns an
\* element leaves the cursor greater than before the call and at most the
\* buffer's length, also when a size VINT of 5 to 8 bytes decodes to a
\* negative number, so no element loop visits a position twice.
C25_ParsingTerminates ==
    /\ file.state # "hang"
    /\ (element.called /\ element.result.ok)
       => /\ element.result.pos > element.at
          /\ element.result.pos <= Len(source.bytes)

(***************************************************************************)
(* Back-patching.  Positions are counted from 1.                           *)
(***************************************************************************)
\* The bytes the muxer wrote as placeholders: the size field of the open
\* Cluster, which startNewCluster() writes with writeVint(0) after the 4
\* bytes of the Cluster ID, and the 8 bytes of the Duration value, the last
\* bytes writeSegmentInfo() writes.
ReservedPositions ==
    (IF currentCluster = 0 THEN {}
     ELSE {clusters[currentCluster].startPos + Len(writeElementId(524531317)) + k :
              k \in 1..Len(writeVint(0))})
    \cup (IF writtenHeader THEN (TracksPos - 7)..TracksPos ELSE {})

\* C26: back-patching changes only reserved fields: closing a cluster and
\* finalize() leave the length of the output as it was and overwrite only
\* the bytes reserved for the cluster's size field and for the Duration
\* value; every other byte emitted earlier stays as it was.
C26_BackPatchOnlyReserved ==
    [][/\ Len(buffer') >= Len(buffer)
       /\ last'.op = "finalize" => Len(buffer') = Len(buffer)
       /\ \A i \in 1..Len(buffer) : buffer'[i] # buffer[i] => i \in ReservedPositions]_vars

(***************************************************************************)
(* Blocks inside a BlockGroup.                                             *)
(***************************************************************************)
\* A generated file that is whole and in which every block gives one frame.
OneFramePerBlock ==
    /\ layout.kind = "file"
    /\ layout.cut = 0 /\ ~layout.unknownSize /\ layout.insert = <<>>
    /\ \A i \in 1..Len(layout.blocks) : ~layout.blocks[i].laced
    /\ file.state = "parsed"
    /\ Len(Frames) = Len(layout.blocks)

\* C27: the frame of a Block inside a BlockGroup is a keyframe if and only
\* if the BlockGroup has no ReferenceBlock child.
C27_GroupKeyframeIffNoReference ==
    OneFramePerBlock
    => \A i \in 1..Len(layout.blocks) :
          layout.blocks[i].kind = "group"
          => (Frames[i].isKeyframe <=> ~layout.blocks[i].reference)

\* The frame parseSimpleBlock() and the frame parseBlock() make of the
\* payload of block i of the parsed file, each called as parseCluster() and
\* parseBlockGroup() call them.
FrameAsSimpleBlock(i) ==
    parseSimpleBlock([EmptyMetadata EXCEPT !.timecodeScale = layout.scale],
                     BlockPayload(layout.blocks[i], i),
                     ClusterTimecode(ClusterOf(layout, i))).frames

FrameAsBlock(i) ==
    parseBlock([EmptyMetadata EXCEPT !.timecodeScale = layout.scale],
               BlockPayload(layout.blocks[i], i),
               ClusterTimecode(ClusterOf(layout, i))).frames

\* C28: a Block and a SimpleBlock with byte-identical payloads in the same
\* cluster give frames with the same track number, the same timestamp and
\* the same payload bytes, the payload being the bytes after the flags byte.
C28_BlockSameAsSimpleBlock ==
    OneFramePerBlock
    => \A i \in 1..Len(layout.blocks) :
          /\ Frames[i] = (IF layout.blocks[i].kind = "simple"
                          THEN FrameAsSimpleBlock(i)[1] ELSE FrameAsBlock(i)[1])
          /\ FrameAsBlock(i)[1].trackNumber = FrameAsSimpleBlock(i)[1].trackNumber
          /\ FrameAsBlock(i)[1].timestampNs = FrameAsSimpleBlock(i)[1].timestampNs
          /\ FrameAsBlock(i)[1].data = FrameAsSimpleBlock(i)[1].data
          /\ Frames[i].data = FramePayload(layout.blocks[i], i)

(***************************************************************************)
(* The Timecode of a cluster in the bytes finalize() returns.               *)
(***************************************************************************)
\* The frame that made the muxer start cluster c.
FirstOfCluster(c) ==
    written[CHOOSE i \in 1..Len(written) :
               /\ written[i].cluster = c
               /\ \A j \in 1..(i - 1) : written[j].cluster # c]

\* The first child of cluster c in the returned bytes: startNewCluster()
\* writes it after the 4 bytes of the Cluster ID and the size byte.
TimecodeChild(c) ==
    readElement(output, clusters[c].startPos + Len(writeElementId(524531317))
                                             + Len(writeVint(0)))

\* C29: for every cluster the muxer emits, the Timecode child in the
\* finalized bytes decodes to the cluster base, the timestamp in
\* TimecodeScale units of the frame that triggered the cluster, whatever
\* the base, bases of 65,536 ticks and more included.
C29_TimecodeDecodesToBase ==
    (JustFinalized /\ Len(written) > 0)
    => \A c \in 1..Len(clusters) :
          /\ TimecodeChild(c).ok
          /\ TimecodeChild(c).id = 231
          /\ readUint(TimecodeChild(c).data) = FirstOfCluster(c).timestampNs.ticks

====
